---- MODULE Spec2Model ----
(***************************************************************************)
(* Browser front end of the Buddy assistant (web/static/js/app.js): the    *)
(* chat transport, the task list with its filter buttons, and the voice    *)
(* recorder, as handlers run one at a time by the UI event loop.  Every    *)
(* await of an async function splits it into the part that runs in the     *)
(* caller's turn and the continuation that runs when the response arrives. *)
(* The backend is an external collaborator reached over HTTP.              *)
(***************************************************************************)
EXTENDS Integers, Sequences, FiniteSets, TLC

\* ------------------------------------------------------------------ bounds
MaxOps     == 3    \* clicks and submissions the user makes in one session
MaxSubmits == 2    \* submissions of the input box among them
MaxToggles == 4    \* clicks on the voice button when the user does nothing else
MaxTasks   == 2    \* task ids the backend can hold
MaxAssistSubmits == 1  \* submissions in a session that also browses the tasks
MaxPageOps == 2    \* operations in a session that uses every part of the page
MaxCardOps == 2    \* operations in a session that starts from any set of tasks

\* ------------------------------------------------------------- vocabulary
Filters   == {"all", "pending", "completed"}
TaskIds   == 1 .. MaxTasks

\* document order of the filter buttons (querySelector returns the first match)
FilterOrder == <<"all", "pending", "completed">>
\* the button that carries the active mark in the page as served
InitialActive == {"all"}

\* fixed texts of the UI
Placeholder   == <<"Processing voice message...">>
ChatFallback  == <<"Sorry, there was an error processing your request.">>
VoiceFallback == <<"Sorry, there was an error processing your voice message.">>
NoTranscript  == <<"(Could not transcribe audio)">>
\* texts the backend may answer with
ReplyText     == <<"reply">>
Transcripts   == {<< >>, <<"heard">>}
\* what the user may have typed into the input box
InputTexts    == {<< >>, <<" ">>, <<" ", "a", " ">>}

VARIABLES
    userInput,      \* userInput.value
    chatMessages,   \* the .message children of #chat-messages, in DOM order
    chatReqs,       \* every /api/chat request issued, with its progress
    nSubmits,       \* sendMessage calls so far (Enter or the send button)
    voiceReqs,      \* every /api/voice upload issued, with its progress
    tasksList,      \* content of #tasks-list
    activeButtons,  \* filter buttons whose classList contains 'active'
    loadReqs,       \* GET /api/tasks requests whose continuation has not run
    putReqs,        \* PUT /api/tasks/{id} requests whose continuation has not run
    nLoads,         \* GET /api/tasks requests issued so far
    nClicks,        \* clicks on filter buttons so far
    nPuts,          \* PUT requests issued so far
    serverTasks,    \* the backend's tasks: id -> "none" | "pending" | "completed"
    isRecording,    \* let isRecording
    mediaRecorder,  \* let mediaRecorder: 0 is undefined, k is the k-th recorder
    audioChunks,    \* let audioChunks
    micPending,     \* getUserMedia promises not yet settled
    recorders,      \* every MediaRecorder created, with its stream
    voiceButton,    \* "idle" | "recording": the button's text, title and class
    nAlerts,        \* alert() dialogs shown
    nErrors,        \* console.error calls so far
    nToggles        \* clicks on the voice button so far

chatVars  == <<userInput, chatMessages, chatReqs, nSubmits>>
taskVars  == <<tasksList, activeButtons, loadReqs, putReqs, nLoads, nClicks, nPuts>>
recVars   == <<isRecording, mediaRecorder, audioChunks, micPending,
               recorders, voiceButton, nAlerts, nToggles>>
vars == <<userInput, chatMessages, chatReqs, nSubmits, voiceReqs, tasksList,
          activeButtons, loadReqs, putReqs, nLoads, nClicks, nPuts, serverTasks,
          isRecording, mediaRecorder, audioChunks, micPending,
          recorders, voiceButton, nAlerts, nToggles, nErrors>>

\* user operations so far
Ops == nSubmits + nClicks + nPuts + nToggles

\* ---------------------------------------------------------------- helpers
RECURSIVE TrimLeft(_)
TrimLeft(s) ==
    IF s # << >> /\ Head(s) = " " THEN TrimLeft(Tail(s)) ELSE s

RECURSIVE TrimRight(_)
TrimRight(s) ==
    IF s # << >> /\ s[Len(s)] = " " THEN TrimRight(SubSeq(s, 1, Len(s) - 1)) ELSE s

\* trim that returns the text as typed
trimNothing(s) ==
    s

\* String.prototype.trim
trim(s) ==
    TrimRight(TrimLeft(s))

\* addMessageToUI that inserts the new .message before the first one
addMessageToUIFirst(msgs, sender, content) ==
    <<[sender |-> sender, text |-> content]>> \o msgs

\* addMessageToUI(sender, content): one more .message at the end of the list
addMessageToUI(msgs, sender, content) ==
    Append(msgs, [sender |-> sender, text |-> content])

\* document.querySelector('.tasks-filter button.active'): the first active
\* button in document order, or "null"
RECURSIVE FirstActive(_)
FirstActive(i) ==
    IF i > Len(FilterOrder) THEN "null"
    ELSE IF FilterOrder[i] \in activeButtons THEN FilterOrder[i]
    ELSE FirstActive(i + 1)

querySelectorActive ==
    FirstActive(1)

\* the request loadTasks(filter) sends: the status constraint is present
\* exactly when filter is not 'all'; by names the caller
loadTasksRequest(filter, by) ==
    [id |-> nLoads + 1, filter |-> filter,
     status |-> IF filter # "all" THEN filter ELSE "none",
     by |-> by, phase |-> "sent", tasks |-> {}]

\* GET /api/tasks on the backend: the user's tasks, constrained by status
tasksQuery(status) ==
    {[id |-> t, status |-> serverTasks[t]] :
        t \in {u \in TaskIds : /\ serverTasks[u] # "none"
                               /\ status \in {"none", serverTasks[u]}}}

\* renderTasks without the statement that empties #tasks-list first
renderTasksKeep(tasks) ==
    IF tasks = {}
    THEN [kind |-> "empty", cards |-> {}]
    ELSE [kind |-> "cards", cards |-> tasksList.cards \cup tasks]

\* renderTasks(tasks): the empty-state paragraph, or one card per task
renderTasks(tasks) ==
    IF tasks = {}
    THEN [kind |-> "empty", cards |-> {}]
    ELSE [kind |-> "cards", cards |-> tasks]

\* renderTasks with a Complete and a Reopen button on every card
actionButtonsBoth(card) ==
    {[label |-> "Complete", status |-> "completed"],
     [label |-> "Reopen", status |-> "pending"]}

\* the action buttons renderTasks puts on the card of a task, each with the
\* status its click handler passes to updateTaskStatus
actionButtons(card) ==
    IF card.status = "pending"
    THEN {[label |-> "Complete", status |-> "completed"]}
    ELSE IF card.status = "completed"
    THEN {[label |-> "Reopen", status |-> "pending"]}
    ELSE {}

\* ------------------------------------------------------------------- init
Init ==
    /\ userInput = << >>
    /\ chatMessages = << >>
    /\ chatReqs = {}
    /\ nSubmits = 0
    /\ voiceReqs = {}
    /\ tasksList = [kind |-> "blank", cards |-> {}, filter |-> "none", by |-> "none"]
    /\ activeButtons = InitialActive
    /\ loadReqs = {[id |-> 1, filter |-> "all", status |-> "none",
                    by |-> "init", phase |-> "sent", tasks |-> {}]}
    /\ putReqs = {}
    /\ nLoads = 1
    /\ nClicks = 0
    /\ nPuts = 0
    /\ serverTasks = [t \in TaskIds |-> IF t = 1 THEN "pending" ELSE "none"]
    /\ isRecording = FALSE
    /\ mediaRecorder = 0
    /\ audioChunks = << >>
    /\ micPending = 0
    /\ recorders = << >>
    /\ voiceButton = "idle"
    /\ nAlerts = 0
    /\ nErrors = 0
    /\ nToggles = 0

\* ------------------------------------------------------------------- chat
\* the user edits the input box
typeInput(s) ==
    /\ Ops < MaxOps /\ nSubmits < MaxSubmits
    /\ s # userInput
    /\ userInput' = s
    /\ UNCHANGED <<chatMessages, chatReqs, nSubmits, voiceReqs, serverTasks>>
    /\ UNCHANGED taskVars
    /\ UNCHANGED recVars
    /\ UNCHANGED nErrors

\* sendMessage that ignores a submission while a chat request is in flight
sendMessageOneAtATime ==
    /\ Ops < MaxOps /\ nSubmits < MaxSubmits
    /\ nSubmits' = nSubmits + 1
    /\ LET message == trim(userInput) IN
       IF message = << >> \/ \E r \in chatReqs : r.phase \in {"sent", "ok"}
       THEN UNCHANGED <<userInput, chatMessages, chatReqs>>
       ELSE /\ chatMessages' = addMessageToUI(chatMessages, "user", message)
            /\ userInput' = << >>
            /\ chatReqs' = chatReqs \cup
                    {[id |-> Cardinality(chatReqs) + 1, message |-> message,
                      um |-> Len(chatMessages) + 1,
                      phase |-> "sent", extracted |-> 0]}
    /\ UNCHANGED <<voiceReqs, serverTasks>>
    /\ UNCHANGED taskVars
    /\ UNCHANGED recVars
    /\ UNCHANGED nErrors

\* sendMessage(), up to the fetch inside fetchChatResponse(message)
sendMessage ==
    /\ Ops < MaxOps /\ nSubmits < MaxSubmits
    /\ nSubmits' = nSubmits + 1
    /\ LET message == trim(userInput) IN
       IF message = << >>
       THEN UNCHANGED <<userInput, chatMessages, chatReqs>>
       ELSE /\ chatMessages' = addMessageToUI(chatMessages, "user", message)
            /\ userInput' = << >>
            /\ chatReqs' = chatReqs \cup
                    {[id |-> Cardinality(chatReqs) + 1, message |-> message,
                      um |-> Len(chatMessages) + 1,
                      phase |-> "sent", extracted |-> 0]}
    /\ UNCHANGED <<voiceReqs, serverTasks>>
    /\ UNCHANGED taskVars
    /\ UNCHANGED recVars
    /\ UNCHANGED nErrors

\* the backend extracts n tasks from a conversation turn; a new task is
\* pending and gets the next free id
extractTasks(n) ==
    IF n = 0 THEN UNCHANGED serverTasks
    ELSE \E t \in TaskIds :
            /\ serverTasks[t] = "none"
            /\ \A u \in TaskIds : u < t => serverTasks[u] # "none"
            /\ serverTasks' = [serverTasks EXCEPT ![t] = "pending"]

\* POST /api/chat answered by the backend
chatBackend(r) ==
    /\ r.phase = "sent"
    /\ \E n \in {0, 1} :
        /\ extractTasks(n)
        /\ chatReqs' = (chatReqs \ {r}) \cup
                {[r EXCEPT !.phase = "ok", !.extracted = n]}
    /\ UNCHANGED <<userInput, chatMessages, nSubmits, voiceReqs>>
    /\ UNCHANGED taskVars
    /\ UNCHANGED recVars
    /\ UNCHANGED nErrors

\* fetchChatResponseOk that reloads the tasks whatever tasks_extracted says
fetchChatResponseOkAlways(r) ==
    /\ r.phase = "ok"
    /\ chatReqs' = (chatReqs \ {r}) \cup {[r EXCEPT !.phase = "done"]}
    /\ querySelectorActive # "null"
    /\ chatMessages' = addMessageToUI(chatMessages, "assistant", ReplyText)
    /\ loadReqs' = loadReqs \cup {loadTasksRequest(querySelectorActive, "chat")}
    /\ nLoads' = nLoads + 1
    /\ UNCHANGED <<userInput, nSubmits, voiceReqs, serverTasks, nErrors>>
    /\ UNCHANGED <<tasksList, activeButtons, putReqs, nClicks, nPuts>>
    /\ UNCHANGED recVars

\* fetchChatResponseOk whose task reload throws after the reply is rendered
fetchChatResponseOkThrows(r) ==
    /\ r.phase = "ok"
    /\ chatReqs' = (chatReqs \ {r}) \cup {[r EXCEPT !.phase = "done"]}
    /\ LET shown == addMessageToUI(chatMessages, "assistant", ReplyText) IN
       IF r.extracted > 0
       THEN /\ chatMessages' = addMessageToUI(shown, "assistant", ChatFallback)
            /\ nErrors' = nErrors + 1
       ELSE /\ chatMessages' = shown
            /\ UNCHANGED nErrors
    /\ UNCHANGED <<loadReqs, nLoads>>
    /\ UNCHANGED <<userInput, nSubmits, voiceReqs, serverTasks>>
    /\ UNCHANGED <<tasksList, activeButtons, putReqs, nClicks, nPuts>>
    /\ UNCHANGED recVars

\* fetchChatResponse after its awaits, response.ok
fetchChatResponseOk(r) ==
    /\ r.phase = "ok"
    /\ chatReqs' = (chatReqs \ {r}) \cup {[r EXCEPT !.phase = "done"]}
    /\ LET shown == addMessageToUI(chatMessages, "assistant", ReplyText) IN
       IF r.extracted > 0
       THEN IF querySelectorActive = "null"
            THEN \* TypeError reading dataset of null, caught below
                 /\ chatMessages' = addMessageToUI(shown, "assistant", ChatFallback)
                 /\ nErrors' = nErrors + 1
                 /\ UNCHANGED <<loadReqs, nLoads>>
            ELSE /\ chatMessages' = shown
                 /\ UNCHANGED nErrors
                 /\ loadReqs' = loadReqs \cup
                        {loadTasksRequest(querySelectorActive, "chat")}
                 /\ nLoads' = nLoads + 1
       ELSE /\ chatMessages' = shown
            /\ UNCHANGED <<loadReqs, nLoads, nErrors>>
    /\ UNCHANGED <<userInput, nSubmits, voiceReqs, serverTasks>>
    /\ UNCHANGED <<tasksList, activeButtons, putReqs, nClicks, nPuts>>
    /\ UNCHANGED recVars

\* fetchChatResponse's catch: the fetch rejected, or !response.ok
fetchChatResponseCatch(r) ==
    /\ r.phase \in {"sent", "ok"}
    /\ chatReqs' = (chatReqs \ {r}) \cup {[r EXCEPT !.phase = "failed"]}
    /\ chatMessages' = addMessageToUI(chatMessages, "assistant", ChatFallback)
    /\ UNCHANGED <<userInput, nSubmits, voiceReqs, serverTasks>>
    /\ UNCHANGED taskVars
    /\ UNCHANGED recVars
    /\ nErrors' = nErrors + 1

\* ------------------------------------------------------------------ tasks
\* filterClick without the loop that removes 'active' from every button
filterClickNoClear(f) ==
    /\ Ops < MaxOps
    /\ nClicks' = nClicks + 1
    /\ activeButtons' = activeButtons \cup {f}
    /\ loadReqs' = loadReqs \cup {loadTasksRequest(f, "filter")}
    /\ nLoads' = nLoads + 1
    /\ UNCHANGED <<tasksList, putReqs, nPuts, serverTasks, voiceReqs>>
    /\ UNCHANGED chatVars
    /\ UNCHANGED recVars
    /\ UNCHANGED nErrors

\* click on a filter button
filterClick(f) ==
    /\ Ops < MaxOps
    /\ nClicks' = nClicks + 1
    /\ activeButtons' = (activeButtons \ Filters) \cup {f}
    /\ loadReqs' = loadReqs \cup {loadTasksRequest(f, "filter")}
    /\ nLoads' = nLoads + 1
    /\ UNCHANGED <<tasksList, putReqs, nPuts, serverTasks, voiceReqs>>
    /\ UNCHANGED chatVars
    /\ UNCHANGED recVars
    /\ UNCHANGED nErrors

\* GET /api/tasks answered by the backend
tasksBackend(r) ==
    /\ r.phase = "sent"
    /\ loadReqs' = (loadReqs \ {r}) \cup
            {[r EXCEPT !.phase = "ok", !.tasks = tasksQuery(r.status)]}
    /\ UNCHANGED <<tasksList, activeButtons, putReqs, nLoads, nClicks, nPuts>>
    /\ UNCHANGED <<serverTasks, voiceReqs>>
    /\ UNCHANGED chatVars
    /\ UNCHANGED recVars
    /\ UNCHANGED nErrors

\* GET /api/tasks answered with a body that has no tasks field
tasksBackendBare(r) ==
    /\ r.phase = "sent"
    /\ loadReqs' = (loadReqs \ {r}) \cup {[r EXCEPT !.phase = "bare"]}
    /\ UNCHANGED <<tasksList, activeButtons, putReqs, nLoads, nClicks, nPuts>>
    /\ UNCHANGED <<serverTasks, voiceReqs>>
    /\ UNCHANGED chatVars
    /\ UNCHANGED recVars
    /\ UNCHANGED nErrors

\* data.tasks || []
dataTasksOrEmpty(r) ==
    IF r.phase = "bare" THEN {} ELSE r.tasks

\* loadTasks after its awaits, response.ok: renderTasks(data.tasks || [])
loadTasksOk(r) ==
    /\ r.phase \in {"ok", "bare"}
    /\ loadReqs' = loadReqs \ {r}
    /\ tasksList' = [kind |-> renderTasks(dataTasksOrEmpty(r)).kind,
                     cards |-> renderTasks(dataTasksOrEmpty(r)).cards,
                     filter |-> r.filter, by |-> r.by]
    /\ UNCHANGED <<activeButtons, putReqs, nLoads, nClicks, nPuts>>
    /\ UNCHANGED <<serverTasks, voiceReqs>>
    /\ UNCHANGED chatVars
    /\ UNCHANGED recVars
    /\ UNCHANGED nErrors

\* loadTasksCatch that sends the request again
loadTasksCatchRetry(r) ==
    /\ loadReqs' = (loadReqs \ {r}) \cup {loadTasksRequest(r.filter, r.by)}
    /\ nLoads' = nLoads + 1
    /\ tasksList' = [kind |-> "error", cards |-> {}, filter |-> r.filter, by |-> r.by]
    /\ UNCHANGED <<activeButtons, putReqs, nClicks, nPuts>>
    /\ UNCHANGED <<serverTasks, voiceReqs>>
    /\ UNCHANGED chatVars
    /\ UNCHANGED recVars
    /\ nErrors' = nErrors + 1

\* loadTasks' catch: the list-level error paragraph
loadTasksCatch(r) ==
    /\ loadReqs' = loadReqs \ {r}
    /\ tasksList' = [kind |-> "error", cards |-> {}, filter |-> r.filter, by |-> r.by]
    /\ UNCHANGED <<activeButtons, putReqs, nLoads, nClicks, nPuts>>
    /\ UNCHANGED <<serverTasks, voiceReqs>>
    /\ UNCHANGED chatVars
    /\ UNCHANGED recVars
    /\ nErrors' = nErrors + 1

\* updateTaskStatus(taskId, status), up to its fetch: the click on the
\* Complete / Reopen button of a rendered card
updateTaskStatus(card) ==
    /\ Ops < MaxOps
    /\ card \in tasksList.cards
    /\ \E b \in actionButtons(card) :
            putReqs' = putReqs \cup
                {[id |-> nPuts + 1, task |-> card.id,
                  status |-> b.status, phase |-> "sent"]}
    /\ nPuts' = nPuts + 1
    /\ UNCHANGED <<tasksList, activeButtons, loadReqs, nLoads, nClicks>>
    /\ UNCHANGED <<serverTasks, voiceReqs>>
    /\ UNCHANGED chatVars
    /\ UNCHANGED recVars
    /\ UNCHANGED nErrors

\* PUT /api/tasks/{id} applied by the backend
putBackend(r) ==
    /\ r.phase = "sent"
    /\ serverTasks[r.task] # "none"
    /\ serverTasks' = [serverTasks EXCEPT ![r.task] = r.status]
    /\ putReqs' = (putReqs \ {r}) \cup {[r EXCEPT !.phase = "ok"]}
    /\ UNCHANGED <<tasksList, activeButtons, loadReqs, nLoads, nClicks, nPuts>>
    /\ UNCHANGED voiceReqs
    /\ UNCHANGED chatVars
    /\ UNCHANGED recVars
    /\ UNCHANGED nErrors

\* updateTaskStatusOk that also patches the rendered card itself
updateTaskStatusOkLocal(r) ==
    /\ r.phase = "ok"
    /\ putReqs' = putReqs \ {r}
    /\ querySelectorActive # "null"
    /\ tasksList' = [tasksList EXCEPT !.cards =
            {IF c.id = r.task THEN [c EXCEPT !.status = r.status] ELSE c : c \in @}]
    /\ loadReqs' = loadReqs \cup {loadTasksRequest(querySelectorActive, "update")}
    /\ nLoads' = nLoads + 1
    /\ UNCHANGED <<activeButtons, nClicks, nPuts, nErrors>>
    /\ UNCHANGED <<serverTasks, voiceReqs>>
    /\ UNCHANGED chatVars
    /\ UNCHANGED recVars

\* updateTaskStatus after its await, response.ok
updateTaskStatusOk(r) ==
    /\ r.phase = "ok"
    /\ putReqs' = putReqs \ {r}
    /\ IF querySelectorActive = "null"
       THEN \* TypeError reading dataset of null, caught and logged
            /\ nErrors' = nErrors + 1
            /\ UNCHANGED <<loadReqs, nLoads>>
       ELSE /\ loadReqs' = loadReqs \cup
                    {loadTasksRequest(querySelectorActive, "update")}
            /\ nLoads' = nLoads + 1
            /\ UNCHANGED nErrors
    /\ UNCHANGED <<tasksList, activeButtons, nClicks, nPuts>>
    /\ UNCHANGED <<serverTasks, voiceReqs>>
    /\ UNCHANGED chatVars
    /\ UNCHANGED recVars

\* updateTaskStatusCatch that reloads the list as the success path does
updateTaskStatusCatchReload(r) ==
    /\ putReqs' = putReqs \ {r}
    /\ querySelectorActive # "null"
    /\ loadReqs' = loadReqs \cup {loadTasksRequest(querySelectorActive, "update")}
    /\ nLoads' = nLoads + 1
    /\ UNCHANGED <<tasksList, activeButtons, nClicks, nPuts>>
    /\ UNCHANGED <<serverTasks, voiceReqs>>
    /\ UNCHANGED chatVars
    /\ UNCHANGED recVars
    /\ nErrors' = nErrors + 1

\* updateTaskStatus' catch (the fetch rejected, or !response.ok): console.error
updateTaskStatusCatch(r) ==
    /\ putReqs' = putReqs \ {r}
    /\ UNCHANGED <<tasksList, activeButtons, loadReqs, nLoads, nClicks, nPuts>>
    /\ UNCHANGED <<serverTasks, voiceReqs>>
    /\ UNCHANGED chatVars
    /\ UNCHANGED recVars
    /\ nErrors' = nErrors + 1

\* ------------------------------------------------------------------ voice
\* startRecording(): the guard and the getUserMedia request
startRecording ==
    IF isRecording
    THEN UNCHANGED micPending
    ELSE micPending' = micPending + 1

\* MediaRecorder.stop(): the recorder goes inactive at once and a task that
\* fires its dataavailable and stop events is queued; nothing happens when
\* it is inactive
recorderStop(k) ==
    IF recorders[k].state = "recording"
    THEN [recorders EXCEPT ![k].state = "inactive",
                           ![k].events = <<"dataavailable", "stop">>]
    ELSE recorders

\* stopRecording that leaves isRecording set
stopRecordingKeepsFlag ==
    IF ~isRecording
    THEN UNCHANGED <<recorders, isRecording, voiceButton>>
    ELSE /\ recorders' = recorderStop(mediaRecorder)
         /\ isRecording' = isRecording
         /\ voiceButton' = "idle"

\* stopRecording()
stopRecording ==
    IF ~isRecording
    THEN UNCHANGED <<recorders, isRecording, voiceButton>>
    ELSE /\ recorders' = recorderStop(mediaRecorder)
         /\ isRecording' = FALSE
         /\ voiceButton' = "idle"

\* toggleVoiceRecording(): click on the voice button
toggleVoiceRecording ==
    /\ nToggles < MaxToggles
    /\ Ops < MaxOps \/ Ops = nToggles
    /\ nToggles' = nToggles + 1
    /\ IF isRecording
       THEN /\ stopRecording
            /\ UNCHANGED micPending
       ELSE /\ startRecording
            /\ UNCHANGED <<recorders, isRecording, voiceButton>>
    /\ UNCHANGED <<mediaRecorder, audioChunks, nAlerts>>
    /\ UNCHANGED <<serverTasks, voiceReqs>>
    /\ UNCHANGED chatVars
    /\ UNCHANGED taskVars
    /\ UNCHANGED nErrors

\* the then-callback of getUserMedia: access granted, stream acquired
getUserMediaThen ==
    /\ micPending > 0
    /\ micPending' = micPending - 1
    /\ recorders' = Append(recorders,
            [state |-> "recording", live |-> TRUE, events |-> << >>])
    /\ mediaRecorder' = Len(recorders) + 1
    /\ audioChunks' = << >>
    /\ isRecording' = TRUE
    /\ voiceButton' = "recording"
    /\ UNCHANGED <<nAlerts, nToggles>>
    /\ UNCHANGED <<serverTasks, voiceReqs>>
    /\ UNCHANGED chatVars
    /\ UNCHANGED taskVars
    /\ UNCHANGED nErrors

\* getUserMediaCatch that logs the denial and shows no alert
getUserMediaCatchSilent ==
    /\ micPending > 0
    /\ micPending' = micPending - 1
    /\ UNCHANGED <<isRecording, mediaRecorder, audioChunks, recorders,
                   voiceButton, nToggles, nAlerts>>
    /\ UNCHANGED <<serverTasks, voiceReqs>>
    /\ UNCHANGED chatVars
    /\ UNCHANGED taskVars
    /\ nErrors' = nErrors + 1

\* getUserMediaCatch of a recorder that was marked recording on request
getUserMediaCatchStuck ==
    /\ micPending > 0
    /\ micPending' = micPending - 1
    /\ nAlerts' = nAlerts + 1
    /\ isRecording' = TRUE
    /\ voiceButton' = "recording"
    /\ UNCHANGED <<mediaRecorder, audioChunks, recorders, nToggles>>
    /\ UNCHANGED <<serverTasks, voiceReqs>>
    /\ UNCHANGED chatVars
    /\ UNCHANGED taskVars
    /\ nErrors' = nErrors + 1

\* the catch-callback of getUserMedia: access denied
getUserMediaCatch ==
    /\ micPending > 0
    /\ micPending' = micPending - 1
    /\ nAlerts' = nAlerts + 1
    /\ UNCHANGED <<isRecording, mediaRecorder, audioChunks, recorders,
                   voiceButton, nToggles>>
    /\ UNCHANGED <<serverTasks, voiceReqs>>
    /\ UNCHANGED chatVars
    /\ UNCHANGED taskVars
    /\ nErrors' = nErrors + 1

\* the 'dataavailable' listener: the recorder's data is pushed on audioChunks
onDataAvailable(chunks, k) ==
    Append(chunks, k)

\* the task MediaRecorder.stop() queued for recorder k: it fires
\* 'dataavailable' and then 'stop'.  The 'stop' listener builds the clip
\* from audioChunks, runs sendVoiceRecording(audioBlob) up to its fetch
\* (placeholder appended, upload issued) and stops the stream's tracks
onStop(k) ==
    /\ recorders[k].events = <<"dataavailable", "stop">>
    /\ audioChunks' = onDataAvailable(audioChunks, k)
    /\ chatMessages' = addMessageToUI(chatMessages, "user", Placeholder)
    /\ voiceReqs' = voiceReqs \cup
            {[id |-> Cardinality(voiceReqs) + 1, session |-> k,
              clip |-> audioChunks', ph |-> Len(chatMessages) + 1,
              phase |-> "sent", text |-> << >>, extracted |-> 0]}
    /\ recorders' = [recorders EXCEPT ![k].events = << >>, ![k].live = FALSE]
    /\ UNCHANGED <<isRecording, mediaRecorder, micPending,
                   voiceButton, nAlerts, nToggles>>
    /\ UNCHANGED <<userInput, chatReqs, nSubmits, serverTasks>>
    /\ UNCHANGED taskVars
    /\ UNCHANGED nErrors

\* POST /api/voice answered by the backend
voiceBackend(r) ==
    /\ r.phase = "sent"
    /\ \E n \in {0, 1}, t \in Transcripts :
        /\ extractTasks(n)
        /\ voiceReqs' = (voiceReqs \ {r}) \cup
                {[r EXCEPT !.phase = "ok", !.text = t, !.extracted = n]}
    /\ UNCHANGED chatVars
    /\ UNCHANGED taskVars
    /\ UNCHANGED recVars
    /\ UNCHANGED nErrors

\* the message sendVoiceRecording takes for its placeholder: the last
\* .message of the list at the time the response is handled
placeholderIndex(r) ==
    Len(chatMessages)

\* sendVoiceRecording after its awaits, response.ok
sendVoiceRecordingOk(r) ==
    /\ r.phase = "ok"
    /\ voiceReqs' = (voiceReqs \ {r}) \cup {[r EXCEPT !.phase = "done"]}
    /\ LET replaced == [chatMessages EXCEPT ![placeholderIndex(r)].text =
                            IF r.text # << >> THEN r.text ELSE NoTranscript]
           shown == addMessageToUI(replaced, "assistant", r.text)
       IN
       IF r.extracted > 0
       THEN IF querySelectorActive = "null"
            THEN \* TypeError reading dataset of null, caught below
                 /\ chatMessages' = addMessageToUI(shown, "assistant", VoiceFallback)
                 /\ nErrors' = nErrors + 1
                 /\ UNCHANGED <<loadReqs, nLoads>>
            ELSE /\ chatMessages' = shown
                 /\ UNCHANGED nErrors
                 /\ loadReqs' = loadReqs \cup
                        {loadTasksRequest(querySelectorActive, "voice")}
                 /\ nLoads' = nLoads + 1
       ELSE /\ chatMessages' = shown
            /\ UNCHANGED <<loadReqs, nLoads, nErrors>>
    /\ UNCHANGED <<userInput, chatReqs, nSubmits, serverTasks>>
    /\ UNCHANGED <<tasksList, activeButtons, putReqs, nClicks, nPuts>>
    /\ UNCHANGED recVars

\* sendVoiceRecordingCatch that also puts the error in the last message
sendVoiceRecordingCatchReplace(r) ==
    /\ r.phase \in {"sent", "ok"}
    /\ voiceReqs' = (voiceReqs \ {r}) \cup {[r EXCEPT !.phase = "failed"]}
    /\ chatMessages' = addMessageToUI(
            [chatMessages EXCEPT ![placeholderIndex(r)].text = VoiceFallback],
            "assistant", VoiceFallback)
    /\ UNCHANGED <<userInput, chatReqs, nSubmits, serverTasks>>
    /\ UNCHANGED taskVars
    /\ UNCHANGED recVars
    /\ nErrors' = nErrors + 1

\* sendVoiceRecording's catch: the fetch rejected, or !response.ok
sendVoiceRecordingCatch(r) ==
    /\ r.phase \in {"sent", "ok"}
    /\ voiceReqs' = (voiceReqs \ {r}) \cup {[r EXCEPT !.phase = "failed"]}
    /\ chatMessages' = addMessageToUI(chatMessages, "assistant", VoiceFallback)
    /\ UNCHANGED <<userInput, chatReqs, nSubmits, serverTasks>>
    /\ UNCHANGED taskVars
    /\ UNCHANGED recVars
    /\ nErrors' = nErrors + 1

\* --------------------------------------------------------- specifications
\* the chat box: typing, submitting, and the /api/chat round trip
NextChat ==
    \/ \E s \in InputTexts : typeInput(s)
    \/ sendMessage
    \/ \E r \in chatReqs : chatBackend(r)
    \/ \E r \in chatReqs : fetchChatResponseOk(r)
    \/ \E r \in chatReqs : fetchChatResponseCatch(r)

\* the /api/tasks round trip of a loadTasks call
NextLoad ==
    \/ \E r \in loadReqs : tasksBackend(r)
    \/ \E r \in loadReqs : loadTasksOk(r)
    \/ \E r \in loadReqs : loadTasksCatch(r)

\* the task panel: filter buttons and the action buttons of the cards
NextPanel ==
    \/ \E f \in Filters : filterClick(f)
    \/ \E c \in tasksList.cards : updateTaskStatus(c)
    \/ \E r \in putReqs : putBackend(r)
    \/ \E r \in putReqs : updateTaskStatusOk(r)
    \/ \E r \in putReqs : updateTaskStatusCatch(r)

\* the voice button, the recorder and the /api/voice round trip
NextVoice ==
    \/ toggleVoiceRecording
    \/ getUserMediaThen
    \/ getUserMediaCatch
    \/ \E k \in DOMAIN recorders : onStop(k)
    \/ \E r \in voiceReqs : voiceBackend(r)
    \/ \E r \in voiceReqs : sendVoiceRecordingOk(r)
    \/ \E r \in voiceReqs : sendVoiceRecordingCatch(r)

Next ==
    NextChat \/ NextLoad \/ NextPanel \/ NextVoice

\* the whole page
Spec == Init /\ [][Next]_vars

\* a session in which the user types and speaks and leaves the task panel alone
SpecTalk == Init /\ [][NextChat \/ NextVoice \/ NextLoad]_vars

\* a session in which the user works the task panel only
SpecPanel == Init /\ [][NextLoad \/ NextPanel]_vars

\* a session in which the user types and browses the tasks by filter, and
\* leaves the input box alone after the last submission
NextAssist ==
    \/ \E s \in InputTexts : typeInput(s) /\ nSubmits < MaxAssistSubmits
    \/ sendMessage /\ nSubmits < MaxAssistSubmits
    \/ \E r \in chatReqs : chatBackend(r)
    \/ \E r \in chatReqs : fetchChatResponseOk(r)
    \/ \E r \in chatReqs : fetchChatResponseCatch(r)
    \/ NextLoad
    \/ \E f \in Filters : filterClick(f)

SpecAssist == Init /\ [][NextAssist]_vars

\* the page as loaded when the backend holds any set of tasks
InitCards ==
    /\ userInput = << >>
    /\ chatMessages = << >>
    /\ chatReqs = {}
    /\ nSubmits = 0
    /\ voiceReqs = {}
    /\ tasksList = [kind |-> "blank", cards |-> {}, filter |-> "none", by |-> "none"]
    /\ activeButtons = InitialActive
    /\ loadReqs = {[id |-> 1, filter |-> "all", status |-> "none",
                    by |-> "init", phase |-> "sent", tasks |-> {}]}
    /\ putReqs = {}
    /\ nLoads = 1
    /\ nClicks = 0
    /\ nPuts = 0
    /\ serverTasks \in [TaskIds -> {"none", "pending", "completed"}]
    /\ isRecording = FALSE
    /\ mediaRecorder = 0
    /\ audioChunks = << >>
    /\ micPending = 0
    /\ recorders = << >>
    /\ voiceButton = "idle"
    /\ nAlerts = 0
    /\ nErrors = 0
    /\ nToggles = 0

\* a short session on the task panel, whatever tasks the backend holds
NextCards ==
    \/ NextLoad
    \/ \E f \in Filters : filterClick(f) /\ Ops < MaxCardOps
    \/ \E c \in tasksList.cards : updateTaskStatus(c) /\ Ops < MaxCardOps
    \/ \E r \in putReqs : putBackend(r)
    \/ \E r \in putReqs : updateTaskStatusOk(r)
    \/ \E r \in putReqs : updateTaskStatusCatch(r)

SpecCards == InitCards /\ [][NextCards]_vars

\* the same session, with a backend that may also leave the tasks field out
\* of its answer
NextFetch ==
    \/ NextCards
    \/ \E r \in loadReqs : tasksBackendBare(r)

SpecFetch == InitCards /\ [][NextFetch]_vars

\* a short session in which the user may use every part of the page
NextPage ==
    \/ \E s \in InputTexts : typeInput(s) /\ Ops < MaxPageOps
    \/ sendMessage /\ Ops < MaxPageOps
    \/ \E r \in chatReqs : chatBackend(r)
    \/ \E r \in chatReqs : fetchChatResponseOk(r)
    \/ \E r \in chatReqs : fetchChatResponseCatch(r)
    \/ NextLoad
    \/ \E f \in Filters : filterClick(f) /\ Ops < MaxPageOps
    \/ \E c \in tasksList.cards : updateTaskStatus(c) /\ Ops < MaxPageOps
    \/ \E r \in putReqs : putBackend(r)
    \/ \E r \in putReqs : updateTaskStatusOk(r)
    \/ \E r \in putReqs : updateTaskStatusCatch(r)
    \/ toggleVoiceRecording /\ Ops < MaxPageOps
    \/ getUserMediaThen
    \/ getUserMediaCatch
    \/ \E k \in DOMAIN recorders : onStop(k)
    \/ \E r \in voiceReqs : voiceBackend(r)
    \/ \E r \in voiceReqs : sendVoiceRecordingOk(r)
    \/ \E r \in voiceReqs : sendVoiceRecordingCatch(r)

SpecPage == Init /\ [][NextPage]_vars

\* ----------------------------------------------------------------- claims
\* streams acquired with getUserMedia whose tracks have not been stopped
LiveStreams ==
    {k \in DOMAIN recorders : recorders[k].live}

\* no microphone request is pending and no recorder event is undelivered
RecorderQuiet ==
    /\ micPending = 0
    /\ \A k \in DOMAIN recorders : recorders[k].events = << >>

\* C1: two clicks on the voice button, whatever the timing of the microphone
\* grant, end with exactly one upload attempted and no acquired stream live,
\* once both requests were granted and every recorder event was delivered.
C1_TwoTogglesOneUpload ==
    (nToggles = 2 /\ nAlerts = 0 /\ RecorderQuiet)
        => (Cardinality(voiceReqs) = 1 /\ LiveStreams = {})

\* C2: at most one microphone stream is acquired and not yet released.
C2_OneLiveSession ==
    Cardinality(LiveStreams) <= 1

\* the request a loadTasks(f) call issued by the caller `by` puts in flight
IssuedLoad(f, by) ==
    [id |-> nLoads + 1, filter |-> f,
     status |-> IF f = "all" THEN "none" ELSE f,
     by |-> by, phase |-> "sent", tasks |-> {}]

\* what #tasks-list shows for a fetch result
Shows(tasks) ==
    /\ tasksList.cards = tasks
    /\ tasksList.kind = IF tasks = {} THEN "empty" ELSE "cards"

\* C3: whenever no task load is in flight and the last load succeeded, the
\* rendered list is the response to a request made with the filter of the
\* button that is marked active.
C3_ListReflectsActiveFilter ==
    (loadReqs = {} /\ tasksList.kind \in {"cards", "empty"})
        => activeButtons = {tasksList.filter}

\* no request of any kind is awaiting its response
NothingInFlight ==
    /\ loadReqs = {}
    /\ putReqs = {}
    /\ \A r \in chatReqs \cup voiceReqs : r.phase \in {"done", "failed"}

\* C4: once every request has completed, none of them having failed, the
\* rendered list equals the backend's current tasks for the active filter.
C4_ViewConverges ==
    (NothingInFlight /\ nErrors = 0)
        => \A f \in activeButtons :
                Shows(tasksQuery(IF f = "all" THEN "none" ELSE f))

\* C5: a step changes the rendered list only by handling a loadTasks response
\* or load error; handling a successful PUT leaves the list alone and issues
\* exactly one loadTasks with the filter active at that moment; and the list
\* shown when that reload completes is its fetch result.
C5_UpdateReloadsOnly ==
    [][ /\ tasksList' # tasksList
            => \E r \in loadReqs :
                /\ r \notin loadReqs'
                /\ \/ r.phase = "ok" /\ nErrors' = nErrors
                   \/ tasksList'.kind = "error" /\ nErrors' = nErrors + 1
        /\ \A r \in putReqs :
            (r.phase = "ok" /\ r \notin putReqs' /\ nErrors' = nErrors)
                => /\ tasksList' = tasksList
                   /\ nLoads' = nLoads + 1
                   /\ \E f \in Filters :
                        /\ activeButtons = {f}
                        /\ loadReqs' = loadReqs \cup {IssuedLoad(f, "update")}
        /\ \A r \in loadReqs :
            (r.by = "update" /\ r.phase = "ok" /\ r \notin loadReqs'
                    /\ nErrors' = nErrors)
                => /\ tasksList'.cards = r.tasks
                   /\ tasksList'.kind = IF r.tasks = {} THEN "empty" ELSE "cards"
                   /\ tasksList'.filter = r.filter
      ]_vars

\* C5 witness: the reload issued after a successful status update has been
\* rendered and shows the task with its new status
C5_Witness ==
    /\ tasksList.by = "update"
    /\ \E c \in tasksList.cards : c.status = "completed"

\* C10: exactly one filter button carries the active mark.
C10_OneActiveButton ==
    Cardinality(activeButtons) = 1

\* C10 witness: the mark has moved away from the initial button and back
\* onto another one by two clicks
C10_Witness ==
    /\ nClicks = 2
    /\ activeButtons = {"completed"}

\* C6: handling a successful /api/voice response overwrites the text of the
\* placeholder message that this upload created, and of no other message.
C6_OverwritesOwnPlaceholder ==
    [][ \A r \in voiceReqs :
            (r.phase = "ok" /\ [r EXCEPT !.phase = "done"] \in voiceReqs')
                => /\ \A i \in 1 .. Len(chatMessages) :
                        i # r.ph => chatMessages'[i] = chatMessages[i]
                   /\ chatMessages'[r.ph].text =
                        (IF r.text # << >> THEN r.text ELSE NoTranscript)
      ]_vars

\* C7: handling a successful /api/chat response with tasks_extracted > 0
\* issues exactly one loadTasks, with the filter active at that moment;
\* a successful response with tasks_extracted = 0 and a failed request
\* issue none.
C7_ReloadOncePerExtraction ==
    [][ \A r \in chatReqs :
          /\ (r.phase = "ok" /\ [r EXCEPT !.phase = "done"] \in chatReqs')
                => IF r.extracted > 0
                   THEN /\ nLoads' = nLoads + 1
                        /\ \E f \in Filters :
                            /\ activeButtons = {f}
                            /\ loadReqs' = loadReqs \cup {IssuedLoad(f, "chat")}
                   ELSE nLoads' = nLoads /\ loadReqs' = loadReqs
          /\ (r.phase \in {"sent", "ok"}
                    /\ [r EXCEPT !.phase = "failed"] \in chatReqs')
                => (nLoads' = nLoads /\ loadReqs' = loadReqs)
      ]_vars

\* C7 witness: a chat response that extracted a task has put a reload in
\* flight under a filter the user had selected in the meantime
C7_Witness ==
    \E q \in loadReqs : q.by = "chat" /\ q.filter = "pending"

\* text made of white space only (the empty text included)
Blank(s) ==
    \A i \in 1 .. Len(s) : s[i] = " "

\* C8: a submission of empty or whitespace-only text appends no message and
\* issues no request.
C8_BlankSubmitDropped ==
    [][ (nSubmits' = nSubmits + 1 /\ Blank(userInput))
            => /\ chatMessages' = chatMessages
               /\ chatReqs' = chatReqs
               /\ voiceReqs' = voiceReqs
               /\ loadReqs' = loadReqs
               /\ putReqs' = putReqs
      ]_vars

\* C8 witness: whitespace-only text has been submitted and dropped
C8_Witness ==
    /\ nSubmits = 1
    /\ userInput = <<" ">>
    /\ chatReqs = {}

\* C9: handling a failed /api/chat call appends exactly one fallback
\* assistant message, and the user message rendered for that send is in the
\* list with the text that was sent, then and from then on.
C9_FailedChatKeepsUserMessage ==
    [][ \A r \in chatReqs :
          /\ (r.phase \in {"sent", "ok"}
                    /\ [r EXCEPT !.phase = "failed"] \in chatReqs')
                => /\ chatMessages' = Append(chatMessages,
                            [sender |-> "assistant", text |-> ChatFallback])
                   /\ chatMessages[r.um] = [sender |-> "user", text |-> r.message]
          /\ r.phase = "failed"
                => chatMessages'[r.um] = [sender |-> "user", text |-> r.message]
      ]_vars

\* a step in which a request's failure is handled: the handler's catch ran
\* (console.error), and it was not the microphone's denial
RequestFailed ==
    nErrors' = nErrors + 1 /\ nAlerts' = nAlerts

\* the last rendered message is a fixed fallback of the assistant, new in
\* this step
FallbackShown ==
    /\ Len(chatMessages') > Len(chatMessages)
    /\ chatMessages'[Len(chatMessages')].sender = "assistant"
    /\ chatMessages'[Len(chatMessages')].text \in {ChatFallback, VoiceFallback}

\* C11: whenever the failure of a backend call is handled (chat, voice, task
\* load or task update, a failure while handling a successful response
\* included), the user gets to see it: a fixed fallback chat message is
\* appended or the task list shows its inline error message.
C11_FailureIsVisible ==
    [][ RequestFailed => (FallbackShown \/ tasksList'.kind = "error") ]_vars

\* C12: a request made with filter 'completed' and answered while the
\* backend holds exactly a pending task 1 and a completed task 2 is rendered
\* as the card of task 2 alone; every rendered card carries exactly one
\* action button, Complete on a pending task and Reopen on a completed one;
\* and a click on it asks for the other status of that task.
C12_CardsAndButtons ==
    [][ /\ \A r \in loadReqs :
            (/\ r.phase = "sent" /\ r.filter = "completed"
             /\ r \notin loadReqs' /\ nErrors' = nErrors
             /\ serverTasks[1] = "pending" /\ serverTasks[2] = "completed"
             /\ \A t \in TaskIds \ {1, 2} : serverTasks[t] = "none")
                => [r EXCEPT !.phase = "ok",
                             !.tasks = {[id |-> 2, status |-> "completed"]}]
                        \in loadReqs'
        /\ \A r \in loadReqs :
            (r.phase = "ok" /\ r \notin loadReqs' /\ nErrors' = nErrors)
                => tasksList'.cards = r.tasks
        /\ \A c \in tasksList'.cards :
            actionButtons(c) =
                {IF c.status = "pending"
                 THEN [label |-> "Complete", status |-> "completed"]
                 ELSE [label |-> "Reopen", status |-> "pending"]}
        /\ \A q \in putReqs' \ putReqs :
            nPuts' = nPuts + 1 => \E c \in tasksList.cards :
                /\ c.id = q.task
                /\ \/ c.status = "pending" /\ q.status = "completed"
                   \/ c.status = "completed" /\ q.status = "pending"
      ]_vars

\* C12 witness: the backend holds pending task 1 and completed task 2, the
\* 'completed' button is active and the list shows the card of task 2 alone
C12_Witness ==
    /\ serverTasks[1] = "pending" /\ serverTasks[2] = "completed"
    /\ activeButtons = {"completed"}
    /\ tasksList.filter = "completed"
    /\ tasksList.cards = {[id |-> 2, status |-> "completed"]}

\* a step in which some failure is handled: of a request, or of the
\* microphone request
FailureHandled ==
    nErrors' = nErrors + 1

\* what toggling, sending and filtering depend on is as it was, and no
\* request other than the failed one is touched
ControlsUntouched ==
    /\ isRecording' = isRecording /\ voiceButton' = voiceButton
    /\ mediaRecorder' = mediaRecorder /\ recorders' = recorders
    /\ audioChunks' = audioChunks
    /\ userInput' = userInput
    /\ activeButtons' = activeButtons
    /\ \A r \in chatReqs : r \in chatReqs' \/ [r EXCEPT !.phase = "failed"] \in chatReqs'
    /\ \A r \in voiceReqs : r \in voiceReqs' \/ [r EXCEPT !.phase = "failed"] \in voiceReqs'
    /\ Cardinality(loadReqs \ loadReqs') + Cardinality(putReqs \ putReqs')
         + Cardinality(chatReqs \ chatReqs') + Cardinality(voiceReqs \ voiceReqs')
         + (micPending - micPending') = 1
    /\ loadReqs' \subseteq loadReqs /\ putReqs' \subseteq putReqs

\* C13 as stated: handling any single failure leaves the page as usable as
\* it was: the recorder state, the input box, the active filter, the other
\* requests in flight and the rendered task cards with their update buttons
\* are all untouched.
C13_UsableAfterFailure ==
    [][ FailureHandled =>
            (ControlsUntouched /\ tasksList'.cards = tasksList.cards) ]_vars

\* C13 as amended: the same, except that a failed task load replaces the
\* rendered cards by the error message, so that no task can be updated until
\* a later load succeeds.
C13_UsableAfterFailureButLoad ==
    [][ FailureHandled =>
            /\ ControlsUntouched
            /\ \/ tasksList' = tasksList
               \/ /\ loadReqs' # loadReqs
                  /\ tasksList'.kind = "error" /\ tasksList'.cards = {} ]_vars

\* C13 witness: the initial load failed, and the filter click made after it
\* has loaded and rendered the task cards
C13_Witness ==
    /\ nErrors = 1 /\ nAlerts = 0
    /\ chatReqs = {} /\ voiceReqs = {} /\ nPuts = 0
    /\ nClicks = 1
    /\ tasksList.kind = "cards" /\ tasksList.by = "filter"

\* C14: every upload carries the clip made of the chunks of the session
\* whose stop produced it and of nothing else, a session is uploaded at most
\* once, and from the moment of the upload on, whatever becomes of it, the
\* stream of that session is released.
C14_StopFinalizesSession ==
    \A r \in voiceReqs :
        /\ r.clip = <<r.session>>
        /\ ~recorders[r.session].live
        /\ \A q \in voiceReqs : q.session = r.session => q.id = r.id

\* C15: the step in which a microphone request is settled by a denial shows
\* one alert and changes nothing of the recorder: its state stays as it was
\* (idle when it was idle), no recorder is created or started, no chunk is
\* accumulated, no message is rendered and no upload is issued.
C15_DenialLeavesIdle ==
    [][ (micPending' = micPending - 1 /\ Len(recorders') = Len(recorders))
            => /\ nAlerts' = nAlerts + 1
               /\ isRecording' = isRecording
               /\ voiceButton' = voiceButton
               /\ ~isRecording => (~isRecording' /\ voiceButton' = "idle")
               /\ mediaRecorder' = mediaRecorder
               /\ recorders' = recorders
               /\ audioChunks' = audioChunks
               /\ voiceReqs' = voiceReqs
               /\ chatMessages' = chatMessages
      ]_vars

\* C15 witness: the one microphone request made has been denied
C15_Witness ==
    /\ nToggles = 1 /\ micPending = 0
    /\ nAlerts = 1
    /\ ~isRecording /\ voiceButton = "idle"
    /\ recorders = << >> /\ voiceReqs = {}

\* C16: the step that handles a failed /api/voice upload appends exactly one
\* message, the fixed fallback of the assistant, leaves every rendered
\* message as it was, the placeholder of that upload among them (still the
\* 'processing' text when no voice response was handled before), and issues
\* no task load.
C16_FailedUploadKeepsPlaceholder ==
    [][ \A r \in voiceReqs :
            (r.phase \in {"sent", "ok"}
                    /\ [r EXCEPT !.phase = "failed"] \in voiceReqs')
                => /\ chatMessages' = Append(chatMessages,
                            [sender |-> "assistant", text |-> VoiceFallback])
                   /\ chatMessages'[r.ph] = chatMessages[r.ph]
                   /\ (\A q \in voiceReqs : q.phase # "done")
                        => chatMessages'[r.ph] =
                                [sender |-> "user", text |-> Placeholder]
                   /\ nLoads' = nLoads
                   /\ loadReqs' = loadReqs
      ]_vars

\* C16 witness: an upload has failed, its placeholder still shows the
\* 'processing' text and the fallback is the last message
C16_Witness ==
    \E r \in voiceReqs :
        /\ r.phase = "failed"
        /\ chatMessages[r.ph] = [sender |-> "user", text |-> Placeholder]
        /\ chatMessages[Len(chatMessages)] =
                [sender |-> "assistant", text |-> VoiceFallback]

\* C17: a submission of non-blank text renders the user message at once and
\* issues its request, whatever chat requests are in flight, and leaves those
\* as they are; the step that handles the response (or the failure) of one
\* request appends its reply (or the fallback) at the end of the list as it
\* is then, and leaves every other request as it is.
C17_SendsResolveIndependently ==
    [][ /\ (nSubmits' = nSubmits + 1 /\ ~Blank(userInput))
            => /\ chatMessages' = Append(chatMessages,
                        [sender |-> "user", text |-> trim(userInput)])
               /\ \E q \in chatReqs' \ chatReqs :
                    /\ q.phase = "sent" /\ q.message = trim(userInput)
                    /\ chatReqs' = chatReqs \cup {q}
        /\ \A r \in chatReqs :
            /\ (r.phase = "ok" /\ [r EXCEPT !.phase = "done"] \in chatReqs')
                => /\ chatMessages' = Append(chatMessages,
                            [sender |-> "assistant", text |-> ReplyText])
                   /\ chatReqs' \ {[r EXCEPT !.phase = "done"]} = chatReqs \ {r}
            /\ (r.phase \in {"sent", "ok"}
                    /\ [r EXCEPT !.phase = "failed"] \in chatReqs')
                => /\ chatMessages' = Append(chatMessages,
                            [sender |-> "assistant", text |-> ChatFallback])
                   /\ chatReqs' \ {[r EXCEPT !.phase = "failed"]} = chatReqs \ {r}
      ]_vars

\* C17 witness: two messages were sent one after the other, both are
\* rendered, and the reply to the second is rendered while the first
\* request is still in flight
C17_Witness ==
    /\ Len(chatMessages) = 3
    /\ chatMessages[1].sender = "user" /\ chatMessages[2].sender = "user"
    /\ chatMessages[3] = [sender |-> "assistant", text |-> ReplyText]
    /\ \E r1, r2 \in chatReqs :
        /\ r1.um = 1 /\ r1.phase \in {"sent", "ok"}
        /\ r2.um = 2 /\ r2.phase = "done"

\* C18: no step removes or reorders a rendered message: the list only grows
\* at its end, every message keeps its place and its sender, and its text
\* too unless the step handles a voice response.
C18_AppendOnly ==
    [][ /\ Len(chatMessages') >= Len(chatMessages)
        /\ \A i \in 1 .. Len(chatMessages) :
            /\ chatMessages'[i].sender = chatMessages[i].sender
            /\ \/ chatMessages'[i] = chatMessages[i]
               \/ \E r \in voiceReqs :
                    r.phase = "ok" /\ [r EXCEPT !.phase = "done"] \in voiceReqs'
      ]_vars

\* C18 witness: messages of both senders are rendered after a typed message
\* and a voice message, the placeholder overwritten in place
C18_Witness ==
    /\ Len(chatMessages) >= 4
    /\ \E r \in chatReqs : r.phase = "done"
    /\ \E r \in voiceReqs :
        /\ r.phase = "done"
        /\ chatMessages[r.ph] = [sender |-> "user", text |-> <<"heard">>]

\* HTTP requests issued in a step, to any endpoint
NewRequests ==
    (Cardinality(chatReqs') - Cardinality(chatReqs))
        + (Cardinality(voiceReqs') - Cardinality(voiceReqs))
        + (nLoads' - nLoads) + (nPuts' - nPuts)

\* C19: a chat send, a voice upload, a filter click and a click on a task's
\* button each issue exactly one request, to their own endpoint; and a step
\* that handles a failure issues no request at all and asks for no microphone.
C19_NoRetry ==
    [][ /\ (nSubmits' = nSubmits + 1 /\ ~Blank(userInput))
            => (NewRequests = 1 /\ Cardinality(chatReqs') = Cardinality(chatReqs) + 1)
        /\ (\E k \in DOMAIN recorders : recorders[k].live /\ ~recorders'[k].live)
            => (NewRequests = 1 /\ Cardinality(voiceReqs') = Cardinality(voiceReqs) + 1)
        /\ nClicks' = nClicks + 1
            => (NewRequests = 1 /\ nLoads' = nLoads + 1)
        /\ nPuts' = nPuts + 1
            => (NewRequests = 1 /\ Cardinality(putReqs') = Cardinality(putReqs) + 1)
        /\ FailureHandled
            => /\ NewRequests = 0
               /\ loadReqs' \subseteq loadReqs /\ putReqs' \subseteq putReqs
               /\ micPending' <= micPending
      ]_vars

\* C19 witness: the one chat request sent has failed, and nothing but the
\* initial task load was ever requested besides
C19_Witness ==
    /\ nSubmits = 1
    /\ \E r \in chatReqs : r.phase = "failed" /\ chatReqs = {r}
    /\ nLoads = 1 /\ nPuts = 0 /\ voiceReqs = {}

\* C20: the step that handles a failed PUT /api/tasks/{id} logs the error
\* and leaves the rendered task list, the chat messages and the active
\* filter as they were, and issues no task load.
C20_FailedUpdateOnlyLogged ==
    [][ (\E r \in putReqs : r \notin putReqs' /\ nErrors' = nErrors + 1)
            => /\ tasksList' = tasksList
               /\ chatMessages' = chatMessages
               /\ activeButtons' = activeButtons
               /\ loadReqs' = loadReqs
               /\ nLoads' = nLoads
      ]_vars

\* C20 witness: the one status update requested has failed, and the list
\* still shows the cards of the initial load, the only load ever issued
C20_Witness ==
    /\ nPuts = 1 /\ putReqs = {}
    /\ nErrors = 1
    /\ nLoads = 1 /\ loadReqs = {}
    /\ tasksList.kind = "cards" /\ tasksList.by = "init"

\* C21: every task load in flight carries the status constraint exactly
\* when its filter is not 'all', and then the filter is the constraint; the
\* step that handles its successful response shows one card per returned
\* task and nothing else, or the empty-state message and no card when the
\* result is empty or missing; the step that handles its failure shows the
\* list-level error message and no card.
C21_LoadReplacesList ==
    [][ /\ \A q \in loadReqs' :
            /\ q.status = "none" <=> q.filter = "all"
            /\ q.status # "none" => q.status = q.filter
        /\ \A r \in loadReqs :
            /\ (r.phase \in {"ok", "bare"} /\ loadReqs' = loadReqs \ {r}
                    /\ nErrors' = nErrors)
                => LET result == IF r.phase = "bare" THEN {} ELSE r.tasks IN
                   /\ tasksList'.cards = result
                   /\ tasksList'.kind = IF result = {} THEN "empty" ELSE "cards"
            /\ (loadReqs' = loadReqs \ {r} /\ nErrors' = nErrors + 1)
                => (tasksList'.kind = "error" /\ tasksList'.cards = {})
      ]_vars

\* C21 witness: a load with filter 'completed' has replaced the cards of the
\* initial rendering by the one card of its result
C21_Witness ==
    /\ nClicks = 1 /\ nPuts = 0 /\ loadReqs = {}
    /\ serverTasks[1] = "pending" /\ serverTasks[2] = "completed"
    /\ tasksList.filter = "completed" /\ tasksList.kind = "cards"
    /\ tasksList.cards = {[id |-> 2, status |-> "completed"]}

\* C22: the clip of every upload is made of the chunks captured by the
\* recorder of its own session, all of them and in capture order, and of no
\* chunk of another session.
C22_ClipIsOwnChunks ==
    \A r \in voiceReqs : r.clip = <<r.session>>

\* rendered messages of the assistant
AssistantMessages ==
    {i \in 1 .. Len(chatMessages) : chatMessages[i].sender = "assistant"}

\* requests whose response or failure has been handled
Completed(reqs) ==
    {r \in reqs : r.phase \in {"done", "failed"}}

\* C23: the step in which a chat request completes appends one message and
\* no more, an assistant message placed after the user message of that send:
\* the reply when the request succeeded, the fixed fallback when it failed;
\* a completed request never completes again; and so the assistant messages
\* rendered are as many as the chat requests and voice uploads completed.
C23_OneAnswerPerSend ==
    [][ /\ \A r \in chatReqs :
            /\ r.phase \in {"sent", "ok"}
                => \A q \in chatReqs' :
                    (q.id = r.id /\ q.phase \in {"done", "failed"})
                        => /\ Len(chatMessages') = Len(chatMessages) + 1
                           /\ SubSeq(chatMessages', 1, Len(chatMessages))
                                = chatMessages
                           /\ r.um < Len(chatMessages')
                           /\ chatMessages[r.um].sender = "user"
                           /\ chatMessages'[Len(chatMessages')] =
                                [sender |-> "assistant",
                                 text |-> IF q.phase = "done"
                                          THEN ReplyText ELSE ChatFallback]
            /\ r.phase \in {"done", "failed"} => r \in chatReqs'
        /\ Cardinality(AssistantMessages') =
                Cardinality(Completed(chatReqs')) + Cardinality(Completed(voiceReqs'))
      ]_vars

\* C23 witness: a send whose response reported an extracted task is
\* completed, with its user message and one assistant message rendered
C23_Witness ==
    /\ \E r \in chatReqs : r.phase = "done" /\ r.extracted = 1 /\ r.um = 1
    /\ Len(chatMessages) = 2
    /\ chatMessages[2] = [sender |-> "assistant", text |-> ReplyText]

\* C24: while isRecording is set, mediaRecorder is a recorder that was
\* created, is recording and has its stream live; and while isRecording is
\* unset and no microphone request is pending, the voice button shows idle.
C24_FlagMatchesRecorder ==
    /\ isRecording
        => /\ mediaRecorder \in DOMAIN recorders
           /\ recorders[mediaRecorder].state = "recording"
           /\ recorders[mediaRecorder].live
    /\ (~isRecording /\ micPending = 0) => voiceButton = "idle"

\* C24 witness: a second session was granted after the first was stopped,
\* and isRecording is set with mediaRecorder on the second recorder
C24_Witness ==
    /\ isRecording
    /\ Len(recorders) = 2 /\ mediaRecorder = 2
    /\ recorders[1].state = "inactive"
    /\ voiceButton = "recording"

====
